---------------------------- MODULE Spec2Model ----------------------------
(***************************************************************************)
(* EVM -> Mina delegation (PaimaStudios/mina-ecdsa-benchmark).             *)
(*                                                                         *)
(* The model covers src/src/delegate.ts: the DelegationOrder codec, the    *)
(* off-chain mirror DelegationContractData, the DelegationZkApp contract   *)
(* (treeRoot + "delegate" events) and the UserZkApp consumer contract,     *)
(* driven by a caller that holds a witness obtained from the mirror, as    *)
(* the script src/src/run.ts does (Spec). SpecPaths has the methods of     *)
(* DelegateProgram, DelegateVerifyProgram, DelegationZkApp (at two         *)
(* addresses) and UserZkApp, each called with arguments from sample sets;  *)
(* it makes no call of the mirror. SpecCodec calls                         *)
(* DelegationOrder.bytesToSign on its own over a wider set of targets.     *)
(* SpecFromHex calls Secp256k1.fromHex on its own over strings of the      *)
(* required length, and SpecRun follows the script src/src/run.ts from its *)
(* compile calls to the end of its finally block.                          *)
(*                                                                         *)
(* o1js primitives are modelled by what they compute:                      *)
(*   Poseidon.hash([l, r])   an ideal two-to-one hash: the pair <<l, r>>   *)
(*   Poseidon.hashWithPrefix an ideal hash: an injective table into Keys   *)
(*   MerkleMap               a function Keys -> Field over a tree of Depth *)
(*   Ecdsa                   an unforgeable signature: it names the key    *)
(*                           that produced it and the bytes it covers      *)
(***************************************************************************)
EXTENDS Integers, Sequences, FiniteSets, TLC

VARIABLES
    treeRoot,   \* DelegationZkApp.treeRoot, the committed root
    events,     \* the "delegate" events emitted by DelegationZkApp, in order
    map,        \* DelegationContractData.map, the caller's local mirror
    held,       \* the caller's `witness` variable: last witness the mirror returned
    call,       \* the invocation that just returned, with its outcome
    delegateProof,  \* the caller's `delegateProof`: what DelegateProgram.sign returned
    otherTreeRoot,  \* treeRoot of a second DelegationZkApp, deployed at another address
    pc,             \* run.ts: the statement the script is at
    lightnetAccount,    \* run.ts: `lightnetAccount`
    viemAccount,    \* run.ts: `viemAccount`
    releases,       \* run.ts: the calls of Lightnet.releaseKeyPair made
    steps           \* run.ts: the steps the script has taken, in order

\* The variables of the script run.ts.
scriptVars == <<pc, lightnetAccount, viemAccount, releases, steps>>

vars == <<treeRoot, events, map, held, call, delegateProof, otherTreeRoot,
          scriptVars>>

----------------------------------------------------------------------------
(* Bounds and sample inputs *)

\* Depth of the Merkle tree behind MerkleMap (2^Depth keys).
Depth == 2

\* Number of bits Field.toBits() yields for PublicKey.x.
FieldBits == 254

\* Mina public keys (PublicKey: x coordinate and parity bit).
T1 == [x |-> 300, isOdd |-> FALSE]
T2 == [x |-> 300, isOdd |-> TRUE]
Targets == {T1, T2}

\* Ethereum public keys (Secp256k1 points).
S1 == [x |-> 11, y |-> 12]
S2 == [x |-> 13, y |-> 14]
Signers == {S1, S2}

\* DelegationOrder: Struct({ target: PublicKey, signer: Secp256k1 }).
DelegationOrder == [target : Targets, signer : Signers]

order1 == [target |-> T1, signer |-> S1]

\* Values of PublicKey.x for the codec: every single bit below 2^31, and
\* values around the byte boundaries.
FieldSamples ==
    {2 ^ i : i \in 0 .. 30}
        \cup {0, 3, 127, 255, 257, 300, 65535, 16777215, 2147483647}

\* PublicKey values for the codec; Targets is among them.
PublicKeys == [x : FieldSamples, isOdd : BOOLEAN]

Keys == 0 .. (2 ^ Depth - 1)

----------------------------------------------------------------------------
(* Bytes *)

\* Bytes.fromString('\x19Ethereum Signed Message:\n')
ethereumPrefix ==
    << 25, 69, 116, 104, 101, 114, 101, 117, 109, 32, 83, 105, 103, 110, 101,
       100, 32, 77, 101, 115, 115, 97, 103, 101, 58, 10 >>

\* Bytes.fromString('MinaDelegate|')
delegationPrefix ==
    << 77, 105, 110, 97, 68, 101, 108, 101, 103, 97, 116, 101, 124 >>

\* Field.toBits(): little-endian bits of x, FieldBits of them.
RECURSIVE toBitsN(_, _)
toBitsN(x, n) ==
    IF n = 0 THEN << >>
    ELSE IF x = 0 THEN [i \in 1 .. n |-> 0]
    ELSE << x % 2 >> \o toBitsN(x \div 2, n - 1)

toBits(x) == toBitsN(x, FieldBits)

boolToU8(bool) == IF bool THEN 1 ELSE 0

\* bits[i + j] ?? Bool(false), with 0-based index n.
bitOrFalse(bits, n) == IF n < Len(bits) THEN bits[n + 1] ELSE 0

\* The inner loop adding each bit above the ones before it.
RECURSIVE encodeByte_firstBitLowest(_, _, _)
encodeByte_firstBitLowest(bits, i, j) ==
    IF j = 0 THEN 0
    ELSE encodeByte_firstBitLowest(bits, i, j - 1)
           + bitOrFalse(bits, i + j - 1) * 2 ^ (j - 1)

\* The inner loop of encodeKey after j iterations: value.mul(2).add(bit).
RECURSIVE encodeByte(_, _, _)
encodeByte(bits, i, j) ==
    IF j = 0 THEN 0
    ELSE encodeByte(bits, i, j - 1) * 2 + bitOrFalse(bits, i + j - 1)

\* encodeKey leaving the parity byte out.
encodeKey_noParity(k) ==
    LET bits == toBits(k.x)
        groups == (Len(bits) + 7) \div 8
    IN  [g \in 1 .. groups |-> encodeByte(bits, 8 * (g - 1), 8)]

\* encodeKey(k): the parity byte, then one byte per group of 8 bits of x.
encodeKey(k) ==
    LET bits == toBits(k.x)
        groups == (Len(bits) + 7) \div 8
    IN  << boolToU8(k.isOdd) >>
          \o [g \in 1 .. groups |-> encodeByte(bits, 8 * (g - 1), 8)]

\* encodeKey of every sample public key, computed once.
encodedKeys == [k \in PublicKeys |-> encodeKey(k)]

\* String(n) as bytes: the decimal digits of n.
RECURSIVE decimalString(_)
decimalString(n) ==
    IF n < 10 THEN << 48 + n >>
    ELSE decimalString(n \div 10) \o << 48 + (n % 10) >>

\* DelegationOrder._innerMessage()
innerMessage(order) == delegationPrefix \o encodedKeys[order.target]

\* bytesToSign with the signer's x appended.
bytesToSign_withSigner(order) == innerMessage(order) \o << order.signer.x >>

\* DelegationOrder.bytesToSign()
bytesToSign(order) == innerMessage(order)

\* The full message built inside assertSignatureMatches.
fullMessage(order) ==
    LET inner == innerMessage(order)
    IN  ethereumPrefix \o decimalString(Len(inner)) \o inner

----------------------------------------------------------------------------
(* ECDSA signatures *)

\* A signature, by what it attests: the key that made it and the bytes it
\* covers; a tampered signature attests nothing.
Ecdsa(signer, message) ==
    [signer |-> signer, message |-> message, tampered |-> FALSE]

\* viem's account.signMessage({ message: { raw } }): signs the raw bytes
\* inside the Ethereum envelope.
signMessage(signer, raw) ==
    Ecdsa(signer, ethereumPrefix \o decimalString(Len(raw)) \o raw)

\* The signature with its last byte corrupted.
corrupted(signature) == [signature EXCEPT !.tampered = TRUE]

\* signature.verifyV2(message, publicKey)
verifyV2(signature, message, publicKey) ==
    /\ ~signature.tampered
    /\ signature.signer = publicKey
    /\ signature.message = message

\* The full message of every sample target, computed once.
fullMessages ==
    [k \in Targets |-> fullMessage([target |-> k, signer |-> S1])]

\* DelegationOrder.assertSignatureMatches(signature): TRUE iff the assertion holds.
assertSignatureMatches(order, signature) ==
    verifyV2(signature, fullMessages[order.target], order.signer)

\* The signatures a caller may present: every signer's signature over every
\* target's message, and one of them corrupted.
Signatures ==
    {signMessage(s, bytesToSign([target |-> t, signer |-> s])) :
        s \in Signers, t \in Targets}
    \cup {corrupted(signMessage(S1, bytesToSign(order1)))}

----------------------------------------------------------------------------
(* Poseidon and MerkleMap *)

\* Poseidon.hash([left, right]) inside the Merkle tree.
PoseidonHash2(left, right) == << left, right >>

\* The field elements hashed by DelegationOrder.hash().
hashFields(order) ==
    << order.target.x, boolToU8(order.target.isOdd),
       order.signer.x, order.signer.y >>

\* Poseidon.hashWithPrefix('DelegationOrder', ...): collision-free on the
\* sample orders.
poseidonTable ==
    LET inputs == {hashFields(o) : o \in DelegationOrder}
    IN  CHOOSE f \in [inputs -> Keys] :
            \A a, b \in inputs : a # b => f[a] # f[b]

\* hash() leaving the signer out.
hash_targetOnly(order) ==
    poseidonTable[hashFields([target |-> order.target, signer |-> S1])]

\* DelegationOrder.hash()
hash(order) == poseidonTable[hashFields(order)]

\* new MerkleMap(): every key holds Field(0).
emptyMap == [k \in Keys |-> 0]

\* MerkleMap.get / MerkleMap.set
mapGet(m, key) == m[key]
mapSet(m, key, value) == [m EXCEPT ![key] = value]

\* Root of the subtree of height `level` whose leftmost leaf is key `first`.
RECURSIVE subtreeRoot(_, _, _)
subtreeRoot(m, level, first) ==
    IF level = 0 THEN m[first]
    ELSE PoseidonHash2(subtreeRoot(m, level - 1, first),
                       subtreeRoot(m, level - 1, first + 2 ^ (level - 1)))

\* MerkleMap.getRoot()
getRoot(m) == subtreeRoot(m, Depth, 0)

\* MerkleMap.getWitness(key): per level from the leaf up, whether the path
\* node is a left child, and the root of its sibling subtree.
getWitness(m, key) ==
    [ isLefts  |-> [i \in 1 .. Depth |-> (key \div 2 ^ (i - 1)) % 2 = 0],
      siblings |-> [i \in 1 .. Depth |->
                      LET node == key \div 2 ^ (i - 1)
                          sib  == IF node % 2 = 0 THEN node + 1 ELSE node - 1
                      IN  subtreeRoot(m, i - 1, sib * 2 ^ (i - 1))] ]

\* MerkleMapWitness.computeRootAndKey(value) after the first i levels.
RECURSIVE computeUpTo(_, _, _)
computeUpTo(witness, value, i) ==
    IF i = 0 THEN << value, 0 >>
    ELSE LET below == computeUpTo(witness, value, i - 1)
             left  == IF witness.isLefts[i] THEN below[1] ELSE witness.siblings[i]
             right == IF witness.isLefts[i] THEN witness.siblings[i] ELSE below[1]
             bit   == IF witness.isLefts[i] THEN 0 ELSE 1
         IN  << PoseidonHash2(left, right), below[2] + bit * 2 ^ (i - 1) >>

\* MerkleMapWitness.computeRootAndKey(value): << root, key >>.
computeRootAndKey(witness, value) == computeUpTo(witness, value, Depth)

\* const emptyMapRoot = new MerkleMap().getRoot();
emptyMapRoot == getRoot(emptyMap)

\* `undefined`, where a witness is expected.
undefined == [isLefts |-> << >>, siblings |-> << >>]

\* The value the tree committed by `node` (of height `level`) holds at `key`.
RECURSIVE leafUnder(_, _, _)
leafUnder(node, level, key) ==
    IF level = 0 THEN node
    ELSE leafUnder(node[((key \div 2 ^ (level - 1)) % 2) + 1], level - 1, key)

\* The map a root commits to.
committedBy(root) == [k \in Keys |-> leafUnder(root, Depth, k)]

----------------------------------------------------------------------------
(* DelegateProof *)

\* A DelegateProof object: its public input and whether it is a genuine
\* DelegateProgram proof (proof.verify() passes).
DelegateProof == [publicInput : DelegationOrder, genuine : BOOLEAN]

\* proof.verify(): TRUE iff the assertion holds.
proofVerify(proof) == proof.genuine

\* `delegateProof` before DelegateProgram.sign has returned.
noProof == [none |-> TRUE]

\* `lightnetAccount` and `viemAccount` before they are assigned.
noAccount == [none |-> TRUE]

----------------------------------------------------------------------------
(* Invocation records *)

NoCall == [op |-> "none"]

----------------------------------------------------------------------------
(* Deployed contracts *)

\* delegationApp.address, and the address of the second DelegationZkApp.
delegationAppAddress == "delegationApp"
otherAppAddress == "otherApp"
Addresses == {delegationAppAddress, otherAppAddress}

\* new DelegationZkApp(address).treeRoot
treeRootAt(address) ==
    IF address = delegationAppAddress THEN treeRoot ELSE otherTreeRoot

----------------------------------------------------------------------------
(* DelegateProgram *)

\* sign verifying the signature over bytesToSign() itself, with no envelope.
signAsserts_noEnvelope(order, signature) ==
    verifyV2(signature, bytesToSign(order), order.signer)

\* sign verifying the signature under whichever key made it.
signAsserts_noSigner(order, signature) ==
    verifyV2(signature, fullMessages[order.target], signature.signer)

\* The assertion of DelegateProgram.sign: TRUE iff it holds.
signAsserts(order, signature) == assertSignatureMatches(order, signature)

\* sign returning a proof whose public input is order1, whatever the order.
signProof_fixedInput(order) == [publicInput |-> order1, genuine |-> TRUE]

\* The proof DelegateProgram.sign returns for public input `order`.
signProof(order) == [publicInput |-> order, genuine |-> TRUE]

DelegateProgram_sign(order, signature) ==
    /\ call = NoCall
    /\ LET ok == signAsserts(order, signature)
           proof == IF ok THEN signProof(order) ELSE noProof
       IN  /\ delegateProof' = IF ok THEN proof ELSE delegateProof
           /\ call' = [op |-> "program.sign", order |-> order,
                       signature |-> signature, ok |-> ok, proof |-> proof]
    /\ UNCHANGED <<treeRoot, events, map, held, otherTreeRoot, scriptVars>>

DelegateProgram_verify(proof) ==
    /\ call = NoCall
    /\ call' = [op |-> "program.verify", proof |-> proof,
                result |-> proofVerify(proof)]
    /\ UNCHANGED <<treeRoot, events, map, held, delegateProof, otherTreeRoot, scriptVars>>

----------------------------------------------------------------------------
(* DelegateVerifyProgram *)

\* check without proof.verify().
verifyProgramCheckAsserts_noVerify(proof) == TRUE

\* The assertion of DelegateVerifyProgram.check: proof.verify().
verifyProgramCheckAsserts(proof) == proofVerify(proof)

\* The public output of DelegateVerifyProgram.check: proof.publicInput.
verifyProgramCheckOutput(proof) == proof.publicInput

DelegateVerifyProgram_check(proof) ==
    /\ call = NoCall
    /\ LET ok == verifyProgramCheckAsserts(proof)
       IN  call' = [op |-> "verifyProgram.check", proof |-> proof, ok |-> ok,
                    publicOutput |-> IF ok THEN verifyProgramCheckOutput(proof)
                                     ELSE undefined]
    /\ UNCHANGED <<treeRoot, events, map, held, delegateProof, otherTreeRoot, scriptVars>>

----------------------------------------------------------------------------
(* DelegationOrder.hash(), called on its own *)

DelegationOrder_hash(order) ==
    /\ call = NoCall
    /\ call' = [op |-> "order.hash", order |-> order, result |-> hash(order)]
    /\ UNCHANGED <<treeRoot, events, map, held, delegateProof, otherTreeRoot, scriptVars>>

----------------------------------------------------------------------------
(* DelegationContractData: the local mirror *)

\* delegate returning the witness of a map that was never written.
dataDelegate_unwrittenMap(m, order) ==
    LET key == hash(order)
    IN  IF mapGet(m, key) # 0
        THEN << m, undefined >>
        ELSE << mapSet(m, key, 1), getWitness(emptyMap, key) >>

\* delegate without its guard on the value the map holds.
dataDelegate_noGuard(m, order) ==
    LET m2 == mapSet(m, hash(order), 1)
    IN  << m2, getWitness(m2, hash(order)) >>

\* delegate writing into a new map.
dataDelegate_freshMap(m, order) ==
    LET key == hash(order)
    IN  IF mapGet(m, key) # 0
        THEN << m, undefined >>
        ELSE LET m2 == mapSet(emptyMap, key, 1)
             IN  << m2, getWitness(m2, key) >>

\* DelegationContractData.delegate(order): << new map, returned witness >>.
dataDelegate(m, order) ==
    LET key == hash(order)
    IN  IF mapGet(m, key) # 0
        THEN << m, undefined >>
        ELSE LET m2 == mapSet(m, key, 1)
             IN  << m2, getWitness(m2, key) >>

\* check taking the witness from a map that was never written.
dataCheck_unwrittenMap(m, order) ==
    LET key == hash(order)
    IN  IF mapGet(m, key) = 0 THEN undefined ELSE getWitness(emptyMap, key)

\* DelegationContractData.check(order): the returned witness.
dataCheck(m, order) ==
    LET key == hash(order)
    IN  IF mapGet(m, key) = 0 THEN undefined ELSE getWitness(m, key)

DelegationContractData_delegate(order) ==
    /\ call = NoCall
    /\ LET r == dataDelegate(map, order)
       IN  /\ map' = r[1]
           /\ held' = IF r[2] = undefined THEN held ELSE r[2]
           /\ call' = [op |-> "data.delegate", order |-> order, result |-> r[2]]
    /\ UNCHANGED <<treeRoot, events, delegateProof, otherTreeRoot, scriptVars>>

DelegationContractData_check(order) ==
    /\ call = NoCall
    /\ LET w == dataCheck(map, order)
       IN  /\ held' = IF w = undefined THEN held ELSE w
           /\ call' = [op |-> "data.check", order |-> order, result |-> w]
    /\ UNCHANGED <<treeRoot, events, map, delegateProof, otherTreeRoot, scriptVars>>

----------------------------------------------------------------------------
(* DelegationZkApp *)

\* delegate without its signature assertion.
delegateAsserts_noSignature(root, order, witness, evmSignature) ==
    LET rootAndKey == computeRootAndKey(witness, 0)
    IN  /\ root = rootAndKey[1]
        /\ hash(order) = rootAndKey[2]

\* delegate without its key assertion.
delegateAsserts_noKey(root, order, witness, evmSignature) ==
    LET rootAndKey == computeRootAndKey(witness, 0)
    IN  /\ assertSignatureMatches(order, evmSignature)
        /\ root = rootAndKey[1]

\* delegate comparing with the root the state was declared with.
delegateAsserts_emptyRoot(root, order, witness, evmSignature) ==
    LET rootAndKey == computeRootAndKey(witness, 0)
    IN  /\ assertSignatureMatches(order, evmSignature)
        /\ emptyMapRoot = rootAndKey[1]
        /\ hash(order) = rootAndKey[2]

\* delegate without its root assertion.
delegateAsserts_noRoot(root, order, witness, evmSignature) ==
    LET rootAndKey == computeRootAndKey(witness, 0)
    IN  /\ assertSignatureMatches(order, evmSignature)
        /\ hash(order) = rootAndKey[2]

\* The three assertions of DelegationZkApp.delegate, against root `root`.
delegateAsserts(root, order, witness, evmSignature) ==
    LET rootAndKey == computeRootAndKey(witness, 0)
    IN  /\ assertSignatureMatches(order, evmSignature)
        /\ root = rootAndKey[1]
        /\ hash(order) = rootAndKey[2]

\* What a delegate call throws: the first of its three assertions that
\* fails, in the order of the method body, or nothing.
delegateFailure(root, order, witness, evmSignature) ==
    LET rootAndKey == computeRootAndKey(witness, 0)
    IN  IF ~assertSignatureMatches(order, evmSignature)
        THEN "order.assertSignatureMatches(evmSignature)"
        ELSE IF root # rootAndKey[1]
        THEN "treeRoot.assertEquals(root)"
        ELSE IF hash(order) # rootAndKey[2]
        THEN "order.hash().assertEquals(key)"
        ELSE "none"

\* delegate committing the root of the old value.
delegateNewRoot_oldValue(witness) == computeRootAndKey(witness, 0)[1]

\* delegate committing a map that holds the new key alone.
delegateNewRoot_freshMap(witness) ==
    getRoot(mapSet(emptyMap, computeRootAndKey(witness, 1)[2], 1))

\* The root DelegationZkApp.delegate commits.
delegateNewRoot(witness) == computeRootAndKey(witness, 1)[1]

\* check without its key assertion.
checkAsserts_noKey(root, order, witness) ==
    computeRootAndKey(witness, 1)[1] = root

\* check computing the root of the old value.
checkAsserts_oldValue(root, order, witness) ==
    LET rootAndKey == computeRootAndKey(witness, 0)
    IN  /\ root = rootAndKey[1]
        /\ hash(order) = rootAndKey[2]

\* check comparing with the root the state was declared with.
checkAsserts_initialRoot(root, order, witness) ==
    LET rootAndKey == computeRootAndKey(witness, 1)
    IN  /\ emptyMapRoot = rootAndKey[1]
        /\ hash(order) = rootAndKey[2]

\* The two assertions of DelegationZkApp.check, against root `root`.
checkAsserts(root, order, witness) ==
    LET rootAndKey == computeRootAndKey(witness, 1)
    IN  /\ root = rootAndKey[1]
        /\ hash(order) = rootAndKey[2]

DelegationZkApp_delegate(order, witness, evmSignature) ==
    /\ call = NoCall
    /\ LET ok == delegateAsserts(treeRoot, order, witness, evmSignature)
       IN  /\ treeRoot' = IF ok THEN delegateNewRoot(witness) ELSE treeRoot
           /\ events' = IF ok THEN Append(events, order) ELSE events
           /\ call' = [op |-> "zkapp.delegate", order |-> order,
                       witness |-> witness, signature |-> evmSignature,
                       ok |-> ok,
                       failure |-> delegateFailure(treeRoot, order, witness,
                                                   evmSignature)]
    /\ UNCHANGED <<map, held, delegateProof, otherTreeRoot, scriptVars>>

\* check emitting a "delegate" event, as delegate does.
DelegationZkApp_check_emits(order, witness) ==
    /\ call = NoCall
    /\ LET ok == checkAsserts(treeRoot, order, witness)
       IN  /\ events' = IF ok THEN Append(events, order) ELSE events
           /\ call' = [op |-> "zkapp.check", order |-> order,
                       witness |-> witness, ok |-> ok]
    /\ UNCHANGED <<treeRoot, map, held, delegateProof, otherTreeRoot, scriptVars>>

DelegationZkApp_check(order, witness) ==
    /\ call = NoCall
    /\ call' = [op |-> "zkapp.check", order |-> order, witness |-> witness,
                ok |-> checkAsserts(treeRoot, order, witness)]
    /\ UNCHANGED <<treeRoot, events, map, held, delegateProof, otherTreeRoot, scriptVars>>

----------------------------------------------------------------------------
(* UserZkApp *)

UserZkApp_noOp ==
    /\ call = NoCall
    /\ call' = [op |-> "user.noOp", ok |-> TRUE]
    /\ UNCHANGED <<treeRoot, events, map, held, delegateProof, otherTreeRoot, scriptVars>>

\* viaRecursiveProof also requiring the order's key under treeRoot.
viaRecursiveProofAsserts_recorded(proof, sender) ==
    /\ proof.publicInput.target = sender
    /\ proofVerify(proof)
    /\ leafUnder(treeRoot, Depth, hash(proof.publicInput)) = 1

\* The assertions of UserZkApp.viaRecursiveProof for transaction sender `sender`.
viaRecursiveProofAsserts(proof, sender) ==
    /\ proof.publicInput.target = sender
    /\ proofVerify(proof)

\* viaRecursiveProof using its proof up.
UserZkApp_viaRecursiveProof_consumes(proof, sender) ==
    /\ call = NoCall
    /\ call' = [op |-> "user.viaRecursiveProof", proof |-> proof,
                sender |-> sender,
                ok |-> proof.publicInput.target = sender /\ proofVerify(proof)]
    /\ delegateProof' = noProof
    /\ UNCHANGED <<treeRoot, events, map, held, otherTreeRoot, scriptVars>>

UserZkApp_viaRecursiveProof(proof, sender) ==
    /\ call = NoCall
    /\ call' = [op |-> "user.viaRecursiveProof", proof |-> proof,
                sender |-> sender,
                ok |-> viaRecursiveProofAsserts(proof, sender)]
    /\ UNCHANGED <<treeRoot, events, map, held, delegateProof, otherTreeRoot, scriptVars>>

\* viaFriendContract without its sender assertion.
viaFriendContractAsserts_noSender(friendRoot, order, witness, sender) ==
    checkAsserts(friendRoot, order, witness)

\* The assertions of UserZkApp.viaFriendContract, the friend contract's
\* committed root being `friendRoot`.
viaFriendContractAsserts(friendRoot, order, witness, sender) ==
    /\ order.target = sender
    /\ checkAsserts(friendRoot, order, witness)

UserZkApp_viaFriendContract(friendAddr, order, witness, sender) ==
    /\ call = NoCall
    /\ call' = [op |-> "user.viaFriendContract", friendAddr |-> friendAddr,
                order |-> order, witness |-> witness, sender |-> sender,
                ok |-> viaFriendContractAsserts(treeRootAt(friendAddr), order,
                                                witness, sender)]
    /\ UNCHANGED <<treeRoot, events, map, held, delegateProof, otherTreeRoot, scriptVars>>

----------------------------------------------------------------------------
(* The caller *)

\* A mirror calculated from the event history: a new DelegationContractData
\* on which delegate() is replayed for the first n events.
RECURSIVE replayEvents(_, _)
replayEvents(history, n) ==
    IF n = 0 THEN emptyMap
    ELSE dataDelegate(replayEvents(history, n - 1), history[n])[1]

archiveMap == replayEvents(events, Len(events))

\* The witness arguments of the contract methods, for an order: the
\* witness the caller holds, which the mirror returned, and the witness for
\* the order's key in a DelegationContractData on which delegate() was
\* called for every event (the map behind treeRoot). No invocation is made
\* while another has not returned.
callerWitnesses(order) ==
    IF call = NoCall
    THEN {held, getWitness(archiveMap, hash(order))} \ {undefined}
    ELSE {}

\* The caller takes the outcome of the invocation and goes on.
Return ==
    /\ call # NoCall
    /\ call' = NoCall
    /\ UNCHANGED <<treeRoot, events, map, held, delegateProof, otherTreeRoot, scriptVars>>

Init ==
    /\ treeRoot = emptyMapRoot
    /\ events = << >>
    /\ map = emptyMap
    /\ held = undefined
    /\ call = NoCall
    /\ delegateProof = noProof
    /\ otherTreeRoot = emptyMapRoot
    /\ pc = "compile"
    /\ lightnetAccount = noAccount
    /\ viemAccount = noAccount
    /\ releases = 0
    /\ steps = << >>

Next ==
    \/ \E order \in DelegationOrder : DelegationContractData_delegate(order)
    \/ \E order \in DelegationOrder : DelegationContractData_check(order)
    \/ \E order \in DelegationOrder :
          \E witness \in callerWitnesses(order), sig \in Signatures :
              DelegationZkApp_delegate(order, witness, sig)
    \/ \E order \in DelegationOrder :
          \E witness \in callerWitnesses(order) :
              DelegationZkApp_check(order, witness)
    \/ UserZkApp_noOp
    \/ \E order \in DelegationOrder : DelegationOrder_hash(order)
    \/ \E proof \in DelegateProof, sender \in Targets :
          UserZkApp_viaRecursiveProof(proof, sender)
    \/ \E order \in DelegationOrder :
          \E witness \in callerWitnesses(order), sender \in Targets :
              UserZkApp_viaFriendContract(delegationAppAddress, order,
                                          witness, sender)
    \/ Return

Spec == Init /\ [][Next]_vars

----------------------------------------------------------------------------
(* The methods of the programs and contracts, called with sample arguments *)

\* DelegationZkApp.delegate on the contract deployed at otherAppAddress.
DelegationZkApp_delegate_other(order, witness, evmSignature) ==
    /\ call = NoCall
    /\ LET ok == delegateAsserts(otherTreeRoot, order, witness, evmSignature)
       IN  /\ otherTreeRoot' =
                 IF ok THEN delegateNewRoot(witness) ELSE otherTreeRoot
           /\ call' = [op |-> "other.delegate", order |-> order,
                       witness |-> witness, signature |-> evmSignature,
                       ok |-> ok,
                       failure |-> delegateFailure(otherTreeRoot, order,
                                                   witness, evmSignature)]
    /\ UNCHANGED <<treeRoot, events, map, held, delegateProof, scriptVars>>

\* The signatures presented: those of Signatures, and order1's signer's
\* signature over bytesToSign() itself, outside the Ethereum envelope.
PresentedSignatures ==
    Signatures \cup {Ecdsa(S1, bytesToSign(order1))}

\* DelegateProof objects that DelegateProgram.sign did not return.
forgedProofs == {p \in DelegateProof : ~p.genuine}

\* The proof arguments: what DelegateProgram.sign last returned, or a
\* forged object.
callerProofs ==
    IF call = NoCall
    THEN ({delegateProof} \ {noProof}) \cup forgedProofs
    ELSE {}

\* The witness argument for the order's key in the map behind the
\* treeRoot of the contract deployed at `address`.
witnessesAt(address, order) ==
    IF call = NoCall
    THEN {getWitness(committedBy(treeRootAt(address)), hash(order))}
    ELSE {}

NextPaths ==
    \/ \E order \in DelegationOrder, sig \in PresentedSignatures :
          DelegateProgram_sign(order, sig)
    \/ \E proof \in callerProofs : DelegateProgram_verify(proof)
    \/ \E proof \in callerProofs : DelegateVerifyProgram_check(proof)
    \/ \E proof \in callerProofs, sender \in Targets :
          UserZkApp_viaRecursiveProof(proof, sender)
    \/ \E order \in DelegationOrder :
          \E witness \in callerWitnesses(order), sig \in PresentedSignatures :
              DelegationZkApp_delegate(order, witness, sig)
    \/ \E order \in DelegationOrder :
          \E witness \in witnessesAt(otherAppAddress, order),
             sig \in PresentedSignatures :
              DelegationZkApp_delegate_other(order, witness, sig)
    \/ \E order \in DelegationOrder :
          \E witness \in callerWitnesses(order) :
              DelegationZkApp_check(order, witness)
    \/ \E friendAddr \in Addresses, order \in DelegationOrder :
          \E witness \in witnessesAt(friendAddr, order), sender \in Targets :
              UserZkApp_viaFriendContract(friendAddr, order, witness, sender)
    \/ Return

SpecPaths == Init /\ [][NextPaths]_vars

----------------------------------------------------------------------------
(* The script run.ts. pc names the awaited call the script is waiting for  *)
(* (or the mirror call it is about to make). An action is the resolution   *)
(* of that call followed by the statements up to the next one; the awaited *)
(* call may reject instead (Run_throws). `steps` logs the calls completed: *)
(* the labels of measure(), the calls made outside measure(), the mirror's *)
(* calls, a throw and the release.                                         *)

\* `delegationOrder`: target the acquired account, signer the EVM wallet.
delegationOrder ==
    [target |-> lightnetAccount.publicKey, signer |-> viemAccount.publicKey]

\* viemAccount.signMessage over delegationOrder.bytesToSign().
walletSignature ==
    signMessage(viemAccount.publicKey, bytesToSign(delegationOrder))

\* `if (!witness)` taken when a witness was returned.
witnessAbsent_inverted(witness) == witness # undefined

\* `if (!witness)`: the mirror returned no witness.
witnessAbsent(witness) == witness = undefined

\* The finally block releasing without looking at lightnetAccount.
finallyReleases_always(account) == TRUE

\* `if (lightnetAccount)` of the finally block.
finallyReleases(account) == account # noAccount

\* The awaited calls inside the try block, by the pc that waits for them.
\* The delegate transaction is waited for in three stages: built, proved
\* and sent ("merkle prove: tx"), sent and not yet included ("merkle
\* prove: wait"), included with wait() still pending ("merkle prove:
\* included").
TryBlock ==
    { "acquireKeyPair", "waitForFunding", "signMessage", "control prove",
      "program prove", "program verify", "deploy contracts", "control check",
      "program check", "merkle prove: tx", "merkle prove: wait",
      "merkle prove: included", "fetchAccount", "merkle check: tx",
      "read indirectly: tx" }

\* The script goes on to statement `next`, having taken step `name`.
goTo(name, next) ==
    /\ pc' = next
    /\ steps' = Append(steps, name)

\* An error leaves the try block for the finally block.
throw(name) == goTo(name, "finally")

\* The compile calls before the try block.
Run_compile ==
    /\ pc = "compile"
    /\ goTo("compile", "acquireKeyPair")
    /\ call' = [op |-> "run.compile"]
    /\ UNCHANGED <<treeRoot, events, map, held, delegateProof, otherTreeRoot,
                   lightnetAccount, viemAccount, releases>>

\* The awaited call rejects: before the try block the script ends there,
\* inside it the finally block is next.
Run_throws ==
    /\ pc \in TryBlock \cup {"compile"}
    /\ goTo("throw", IF pc = "compile" THEN "ended" ELSE "finally")
    /\ call' = [op |-> "run.throw", at |-> pc]
    /\ UNCHANGED <<treeRoot, events, map, held, delegateProof, otherTreeRoot,
                   lightnetAccount, viemAccount, releases>>

Run_acquireKeyPair(keyPair) ==
    /\ pc = "acquireKeyPair"
    /\ lightnetAccount' = [publicKey |-> keyPair]
    /\ goTo("acquireKeyPair", "waitForFunding")
    /\ call' = [op |-> "Lightnet.acquireKeyPair", result |-> keyPair]
    /\ UNCHANGED <<treeRoot, events, map, held, delegateProof, otherTreeRoot,
                   viemAccount, releases>>

\* waitForFunding returns; the wallet is generated and the order built.
Run_waitForFunding(signer) ==
    /\ pc = "waitForFunding"
    /\ viemAccount' = [publicKey |-> signer]
    /\ goTo("waitForFunding", "signMessage")
    /\ call' = [op |-> "Mina.waitForFunding", signer |-> signer]
    /\ UNCHANGED <<treeRoot, events, map, held, delegateProof, otherTreeRoot,
                   lightnetAccount, releases>>

\* signMessage returns the signature; a new mirror is created.
Run_signMessage ==
    /\ pc = "signMessage"
    /\ map' = emptyMap
    /\ goTo("signMessage", "control prove")
    /\ call' = [op |-> "viemAccount.signMessage",
                result |-> walletSignature]
    /\ UNCHANGED <<treeRoot, events, held, delegateProof, otherTreeRoot,
                   lightnetAccount, viemAccount, releases>>

Run_controlProve ==
    /\ pc = "control prove"
    /\ goTo("NoOpProgram.doNothing", "program prove")
    /\ call' = [op |-> "NoOpProgram.doNothing"]
    /\ UNCHANGED <<treeRoot, events, map, held, delegateProof, otherTreeRoot,
                   lightnetAccount, viemAccount, releases>>

Run_programProve ==
    /\ pc = "program prove"
    /\ LET ok == signAsserts(delegationOrder, walletSignature)
       IN  /\ delegateProof' =
                 IF ok THEN signProof(delegationOrder) ELSE delegateProof
           /\ IF ok THEN goTo("DelegateProgram.sign", "program verify")
                    ELSE throw("assertion failed")
           /\ call' = [op |-> "program.sign", order |-> delegationOrder,
                       signature |-> walletSignature, ok |-> ok]
    /\ UNCHANGED <<treeRoot, events, map, held, otherTreeRoot,
                   lightnetAccount, viemAccount, releases>>

Run_programVerify ==
    /\ pc = "program verify"
    /\ goTo("DelegateProgram.verify", "deploy contracts")
    /\ call' = [op |-> "program.verify", proof |-> delegateProof,
                result |-> proofVerify(delegateProof)]
    /\ UNCHANGED <<treeRoot, events, map, held, delegateProof, otherTreeRoot,
                   lightnetAccount, viemAccount, releases>>

\* Both contracts are deployed: treeRoot is emptyMapRoot, no events.
Run_deploy ==
    /\ pc = "deploy contracts"
    /\ treeRoot' = emptyMapRoot
    /\ events' = << >>
    /\ goTo("deploy contracts", "control check")
    /\ call' = [op |-> "run.deploy"]
    /\ UNCHANGED <<map, held, delegateProof, otherTreeRoot,
                   lightnetAccount, viemAccount, releases>>

Run_controlCheck ==
    /\ pc = "control check"
    /\ goTo("UserZkApp.noOp", "program check")
    /\ call' = [op |-> "user.noOp", ok |-> TRUE]
    /\ UNCHANGED <<treeRoot, events, map, held, delegateProof, otherTreeRoot,
                   lightnetAccount, viemAccount, releases>>

Run_programCheck ==
    /\ pc = "program check"
    /\ LET sender == lightnetAccount.publicKey
           ok == viaRecursiveProofAsserts(delegateProof, sender)
       IN  /\ IF ok THEN goTo("UserZkApp.viaRecursiveProof",
                              "merkle prove: witness")
                    ELSE throw("assertion failed")
           /\ call' = [op |-> "user.viaRecursiveProof",
                       proof |-> delegateProof, sender |-> sender, ok |-> ok]
    /\ UNCHANGED <<treeRoot, events, map, held, delegateProof, otherTreeRoot,
                   lightnetAccount, viemAccount, releases>>

\* delegationContractData.delegate(delegationOrder) and `if (!witness)`.
Run_merkleProveWitness ==
    /\ pc = "merkle prove: witness"
    /\ LET r == dataDelegate(map, delegationOrder)
       IN  /\ map' = r[1]
           /\ held' = r[2]
           /\ IF witnessAbsent(r[2]) THEN throw("witness absent")
               ELSE goTo("data.delegate", "merkle prove: tx")
           /\ call' = [op |-> "data.delegate", order |-> delegationOrder,
                       result |-> r[2]]
    /\ UNCHANGED <<treeRoot, events, delegateProof, otherTreeRoot,
                   lightnetAccount, viemAccount, releases>>

\* The delegate transaction is built (the method runs against the fetched
\* treeRoot), proved and sent.
Run_merkleProveSend ==
    /\ pc = "merkle prove: tx"
    /\ LET ok == delegateAsserts(treeRoot, delegationOrder, held,
                                 walletSignature)
       IN  /\ IF ok THEN pc' = "merkle prove: wait" /\ steps' = steps
                    ELSE throw("assertion failed")
           /\ call' = [op |-> "Mina.transaction", method |-> "delegate",
                       order |-> delegationOrder, witness |-> held,
                       signature |-> walletSignature, ok |-> ok]
    /\ UNCHANGED <<treeRoot, events, map, held, delegateProof, otherTreeRoot,
                   lightnetAccount, viemAccount, releases>>

\* The network includes the delegate transaction while wait() is pending:
\* DelegationZkApp.delegate takes effect.
Run_merkleProveIncluded ==
    /\ pc = "merkle prove: wait"
    /\ LET ok == delegateAsserts(treeRoot, delegationOrder, held,
                                 walletSignature)
       IN  /\ treeRoot' = IF ok THEN delegateNewRoot(held) ELSE treeRoot
           /\ events' = IF ok THEN Append(events, delegationOrder) ELSE events
           /\ IF ok THEN pc' = "merkle prove: included" /\ steps' = steps
                    ELSE throw("assertion failed")
           /\ call' = [op |-> "zkapp.delegate", order |-> delegationOrder,
                       witness |-> held, signature |-> walletSignature,
                       ok |-> ok,
                       failure |-> delegateFailure(treeRoot, delegationOrder,
                                                   held, walletSignature)]
    /\ UNCHANGED <<map, held, delegateProof, otherTreeRoot,
                   lightnetAccount, viemAccount, releases>>

\* wait() returns for the included delegate transaction.
Run_merkleProveWait ==
    /\ pc = "merkle prove: included"
    /\ goTo("DelegationZkApp.delegate", "fetchAccount")
    /\ call' = [op |-> "tx.wait", method |-> "delegate"]
    /\ UNCHANGED <<treeRoot, events, map, held, delegateProof, otherTreeRoot,
                   lightnetAccount, viemAccount, releases>>

Run_fetchAccount ==
    /\ pc = "fetchAccount"
    /\ goTo("fetchAccount", "merkle check: witness")
    /\ call' = [op |-> "fetchAccount", treeRoot |-> treeRoot]
    /\ UNCHANGED <<treeRoot, events, map, held, delegateProof, otherTreeRoot,
                   lightnetAccount, viemAccount, releases>>

\* delegationContractData.check(delegationOrder) and `if (!witness)`,
\* before the check transaction and before the viaFriendContract one.
Run_checkWitness ==
    /\ pc \in {"merkle check: witness", "read indirectly: witness"}
    /\ LET w == dataCheck(map, delegationOrder)
       IN  /\ held' = w
           /\ IF witnessAbsent(w) THEN throw("witness absent")
               ELSE goTo("data.check",
                         IF pc = "merkle check: witness"
                         THEN "merkle check: tx" ELSE "read indirectly: tx")
           /\ call' = [op |-> "data.check", order |-> delegationOrder,
                       result |-> w]
    /\ UNCHANGED <<treeRoot, events, map, delegateProof, otherTreeRoot,
                   lightnetAccount, viemAccount, releases>>

Run_merkleCheckTx ==
    /\ pc = "merkle check: tx"
    /\ LET ok == checkAsserts(treeRoot, delegationOrder, held)
       IN  /\ IF ok THEN goTo("DelegationZkApp.check",
                              "read indirectly: witness")
                    ELSE throw("assertion failed")
           /\ call' = [op |-> "zkapp.check", order |-> delegationOrder,
                       witness |-> held, ok |-> ok]
    /\ UNCHANGED <<treeRoot, events, map, held, delegateProof, otherTreeRoot,
                   lightnetAccount, viemAccount, releases>>

Run_readIndirectlyTx ==
    /\ pc = "read indirectly: tx"
    /\ LET sender == lightnetAccount.publicKey
           ok == viaFriendContractAsserts(treeRootAt(delegationAppAddress),
                                          delegationOrder, held, sender)
       IN  /\ IF ok THEN goTo("UserZkApp.viaFriendContract", "summarize")
                    ELSE throw("assertion failed")
           /\ call' = [op |-> "user.viaFriendContract",
                       friendAddr |-> delegationAppAddress,
                       order |-> delegationOrder, witness |-> held,
                       sender |-> sender, ok |-> ok]
    /\ UNCHANGED <<treeRoot, events, map, held, delegateProof, otherTreeRoot,
                   lightnetAccount, viemAccount, releases>>

\* The table of results; the try block ends and the finally block is next.
Run_summarize ==
    /\ pc = "summarize"
    /\ goTo("summarize", "finally")
    /\ call' = [op |-> "run.summarize"]
    /\ UNCHANGED <<treeRoot, events, map, held, delegateProof, otherTreeRoot,
                   lightnetAccount, viemAccount, releases>>

\* The finally block: Lightnet.releaseKeyPair if lightnetAccount is set;
\* its result is true or false, or the call rejects.
Run_finally(releaseResult) ==
    /\ pc = "finally"
    /\ LET release == finallyReleases(lightnetAccount)
       IN  /\ releases' = IF release THEN releases + 1 ELSE releases
           /\ goTo(IF release THEN "releaseKeyPair" ELSE "no release", "ended")
           /\ call' = [op |-> "run.finally", released |-> release,
                       publicKey |-> IF lightnetAccount = noAccount
                                     THEN "undefined"
                                     ELSE lightnetAccount.publicKey,
                       releaseResult |->
                           IF release THEN releaseResult ELSE "none"]
    /\ UNCHANGED <<treeRoot, events, map, held, delegateProof, otherTreeRoot,
                   lightnetAccount, viemAccount>>

NextRun ==
    \/ Run_compile
    \/ Run_throws
    \/ \E keyPair \in Targets : Run_acquireKeyPair(keyPair)
    \/ \E signer \in Signers : Run_waitForFunding(signer)
    \/ Run_signMessage
    \/ Run_controlProve
    \/ Run_programProve
    \/ Run_programVerify
    \/ Run_deploy
    \/ Run_controlCheck
    \/ Run_programCheck
    \/ Run_merkleProveWitness
    \/ Run_merkleProveSend
    \/ Run_merkleProveIncluded
    \/ Run_merkleProveWait
    \/ Run_fetchAccount
    \/ Run_checkWitness
    \/ Run_merkleCheckTx
    \/ Run_readIndirectlyTx
    \/ Run_summarize
    \/ \E releaseResult \in {"true", "false", "rejected"} :
          Run_finally(releaseResult)

SpecRun == Init /\ [][NextRun]_vars

----------------------------------------------------------------------------
(* Secp256k1.fromHex, called on its own. A string is the sequence of its   *)
(* characters; a BigInt is the sequence of its hexadecimal digits, highest *)
(* first, without leading zeros.                                           *)

HexLen == 64

\* s.repeat-like helper for the samples: n times the character c.
fill(c, n) == [i \in 1 .. n |-> c]

\* The hexadecimal digits BigInt('0x...') reads, with their values.
hexDigits ==
    [c \in {"0", "1", "2", "3", "4", "5", "6", "7", "8", "9",
             "a", "b", "c", "d", "e", "f", "A", "B", "C", "D", "E", "F"} |->
        CASE c = "0" -> 0 [] c = "1" -> 1 [] c = "2" -> 2 [] c = "3" -> 3
          [] c = "4" -> 4 [] c = "5" -> 5 [] c = "6" -> 6 [] c = "7" -> 7
          [] c = "8" -> 8 [] c = "9" -> 9
          [] c \in {"a", "A"} -> 10 [] c \in {"b", "B"} -> 11
          [] c \in {"c", "C"} -> 12 [] c \in {"d", "D"} -> 13
          [] c \in {"e", "E"} -> 14 [] c \in {"f", "F"} -> 15]

\* publicKey.startsWith('0x04')
startsWith0x04(publicKey) ==
    /\ Len(publicKey) >= 4
    /\ SubSeq(publicKey, 1, 4) = << "0", "x", "0", "4" >>

\* publicKey.substring(from, to), 0-based, end exclusive.
substring(publicKey, from, to) == SubSeq(publicKey, from + 1, to)

\* The white space and line terminators BigInt() trims (StrWhiteSpaceChar);
\* those without an escape are named: VT is U+000B, NBSP U+00A0, ZWNBSP
\* U+FEFF, LS U+2028, PS U+2029, USP any other space separator.
whiteSpace ==
    {" ", "\t", "\n", "\r", "\f", "VT", "NBSP", "ZWNBSP", "LS", "PS", "USP"}

\* A string without the white space at its end, as BigInt() trims it.
RECURSIVE trimEnd(_)
trimEnd(str) ==
    IF str # << >> /\ str[Len(str)] \in whiteSpace
    THEN trimEnd(SubSeq(str, 1, Len(str) - 1))
    ELSE str

\* A digit sequence without its leading zeros.
RECURSIVE stripZeros(_)
stripZeros(digits) ==
    IF digits # << >> /\ digits[1] = 0
    THEN stripZeros(SubSeq(digits, 2, Len(digits)))
    ELSE digits

\* BigInt('0x' + str) can be read: hexadecimal digits, at least one,
\* then white space at most.
bigIntReads(str) ==
    LET t == trimEnd(str)
    IN  /\ t # << >>
        /\ \A i \in 1 .. Len(t) : t[i] \in DOMAIN hexDigits

\* BigInt('0x' + str), for a str it reads.
bigInt(str) ==
    LET t == trimEnd(str)
    IN  stripZeros([i \in 1 .. Len(t) |-> hexDigits[t[i]]])

\* Secp256k1.fromHex(publicKey): what it throws, or the coordinates it
\* hands to Secp256k1.from.
fromHex(publicKey) ==
    IF ~startsWith0x04(publicKey) \/ Len(publicKey) # 4 + HexLen + HexLen
    THEN [threw |-> "Bad public key format"]
    ELSE LET xs == substring(publicKey, 4, 4 + HexLen)
             ys == substring(publicKey, 4 + HexLen, 4 + HexLen + HexLen)
         IN  IF bigIntReads(xs) /\ bigIntReads(ys)
             THEN [threw |-> "nothing", x |-> bigInt(xs), y |-> bigInt(ys)]
             ELSE [threw |-> "SyntaxError"]

\* Sample inputs: a prefix, two runs of characters for x and y, each of one
\* character with another one at its end, and a tail that makes the string
\* one character longer.
HexPrefixes ==
    { << "0", "x", "0", "4" >>, << "0", "x", "0", "2" >>,
      << "0", "X", "0", "4" >>, << "0", "x", "4" >>, << >> }
HexRuns ==
    { fill(c, HexLen - 1) \o << d >> :
        c \in {"0", "a", "F"}, d \in {"1", "e", "g", " ", "\t"} }
HexInputs ==
    { p \o xs \o ys \o t :
        p \in HexPrefixes, xs \in HexRuns, ys \in HexRuns,
        t \in { << >>, << "0" >> } }

Secp256k1_fromHex(publicKey) ==
    /\ call = NoCall
    /\ call' = [op |-> "Secp256k1.fromHex", publicKey |-> publicKey,
                result |-> fromHex(publicKey)]
    /\ UNCHANGED <<treeRoot, events, map, held, delegateProof, otherTreeRoot, scriptVars>>

NextFromHex ==
    \/ \E publicKey \in HexInputs : Secp256k1_fromHex(publicKey)
    \/ Return

SpecFromHex == Init /\ [][NextFromHex]_vars

----------------------------------------------------------------------------
(* The codec, called on its own *)

\* The orders bytesToSign() is called on.
CodecOrders == [target : PublicKeys, signer : Signers]

DelegationOrder_bytesToSign(order) ==
    /\ call = NoCall
    /\ call' = [op |-> "order.bytesToSign", order |-> order,
                result |-> bytesToSign(order)]
    /\ UNCHANGED <<treeRoot, events, map, held, delegateProof, otherTreeRoot, scriptVars>>

\* encodeKey(k), called on its own.
EncodeKey(k) ==
    /\ call = NoCall
    /\ call' = [op |-> "encodeKey", k |-> k, result |-> encodeKey(k)]
    /\ UNCHANGED <<treeRoot, events, map, held, delegateProof, otherTreeRoot, scriptVars>>

NextCodec ==
    \/ \E order \in CodecOrders : DelegationOrder_bytesToSign(order)
    \/ \E k \in PublicKeys : EncodeKey(k)
    \/ Return

SpecCodec == Init /\ [][NextCodec]_vars

----------------------------------------------------------------------------
(* What a root commits to *)

\* The value key `key` holds under the committed treeRoot.
valueAt(key) == leafUnder(treeRoot, Depth, key)

\* The map the committed treeRoot commits to.
committedMap == [k \in Keys |-> valueAt(k)]

\* The orders of the "delegate" events emitted so far.
recorded == {events[i] : i \in 1 .. Len(events)}

\* The signature order.signer gives over the order's bytesToSign().
genuineSignature(order) == signMessage(order.signer, bytesToSign(order))

\* Every witness a MerkleMap over Keys with values 0 and 1 can give.
AllWitnesses ==
    {getWitness(m, k) : m \in [Keys -> {0, 1}], k \in Keys}

isDelegateCall(c) == c.op = "zkapp.delegate"
isCheckCall(c) == c.op = "zkapp.check"

----------------------------------------------------------------------------
(* C1 *)

C1_KeysAreRecorded ==
    \A k \in Keys : valueAt(k) = 1 => \E o \in recorded : hash(o) = k

C1_RecordNeedsSignature ==
    /\ events' # events =>
          /\ isDelegateCall(call') /\ call'.ok
          /\ events' = Append(events, call'.order)
          /\ assertSignatureMatches(call'.order, call'.signature)
    /\ (isDelegateCall(call')
          /\ computeRootAndKey(call'.witness, 0)[2] # hash(call'.order)) =>
          /\ ~call'.ok
          /\ UNCHANGED <<treeRoot, events, scriptVars>>

\* C1: every key that holds 1 under the committed treeRoot is the hash of an
\* order in the event log, every order enters the log in a successful
\* delegate call whose signature assertSignatureMatches accepts for that
\* order, and a delegate call whose witness key is not order.hash() inserts
\* nothing.
C1_OnlySignedOrdersAreInserted ==
    [] C1_KeysAreRecorded /\ [][C1_RecordNeedsSignature]_vars

\* A delegate call has just succeeded and its key holds 1.
C1_Witness ==
    /\ isDelegateCall(call) /\ call.ok
    /\ valueAt(hash(call.order)) = 1
    /\ assertSignatureMatches(call.order, call.signature)

----------------------------------------------------------------------------
(* C2 *)

\* C2: a successful delegate(order, witness, signature) commits the root
\* computed from the witness with value 1, which differs from the old
\* committed map at order.hash() only, and emits exactly one "delegate"
\* event, carrying the order.
C2_DelegateCommitsWitnessRoot ==
    [][ (isDelegateCall(call') /\ call'.ok) =>
          /\ treeRoot' = computeRootAndKey(call'.witness, 1)[1]
          /\ \A k \in Keys :
                valueAt(k)' = IF k = hash(call'.order) THEN 1 ELSE valueAt(k)
          /\ events' = Append(events, call'.order) ]_vars

\* A successful delegate onto a map that already holds another order.
C2_Witness ==
    /\ isDelegateCall(call) /\ call.ok
    /\ Len(events) = 2
    /\ events[2] = call.order

----------------------------------------------------------------------------
(* C3 *)

\* C3: a delegate call whose signature check fails, or whose witness with
\* value 0 does not give the current treeRoot, or whose witness key is not
\* order.hash(), is rejected and leaves treeRoot and the event log unchanged.
C3_RejectedDelegateChangesNothing ==
    [][ (/\ isDelegateCall(call')
         /\ \/ ~assertSignatureMatches(call'.order, call'.signature)
            \/ computeRootAndKey(call'.witness, 0)[1] # treeRoot
            \/ computeRootAndKey(call'.witness, 0)[2] # hash(call'.order)) =>
          /\ ~call'.ok
          /\ treeRoot' = treeRoot
          /\ events' = events ]_vars

\* A delegate call rejected for its corrupted signature alone.
C3_Witness ==
    /\ isDelegateCall(call) /\ ~call.ok
    /\ call.signature = corrupted(genuineSignature(call.order))
    /\ computeRootAndKey(call.witness, 0) = <<treeRoot, hash(call.order)>>

----------------------------------------------------------------------------
(* C4 *)

\* C4: a successful delegate changes treeRoot, to the root its own witness
\* gives with value 1 and to nothing else; a delegate whose witness was
\* computed against a root other than the current one is rejected with
\* treeRoot and the log as they were; and once a delegate has landed, every
\* attempt whose witness was computed against the root it replaced is
\* rejected.
C4_StaleAttemptIsRejected ==
    [][ isDelegateCall(call') =>
          /\ treeRoot' \in {treeRoot, computeRootAndKey(call'.witness, 1)[1]}
          /\ computeRootAndKey(call'.witness, 0)[1] # treeRoot =>
                /\ ~call'.ok
                /\ treeRoot' = treeRoot
                /\ events' = events
          /\ call'.ok =>
                /\ treeRoot' # treeRoot
                /\ \A w \in AllWitnesses :
                      computeRootAndKey(w, 0)[1] = treeRoot =>
                          \A o \in DelegationOrder :
                              ~delegateAsserts(treeRoot', o, w,
                                               genuineSignature(o)) ]_vars

\* The loser of a race: a delegate for an order not yet recorded, with a
\* genuine signature and the right key, rejected because its witness was
\* computed against the root that the last recorded delegate replaced.
C4_Witness ==
    /\ isDelegateCall(call) /\ ~call.ok
    /\ call.order \notin recorded
    /\ assertSignatureMatches(call.order, call.signature)
    /\ Len(events) >= 1
    /\ computeRootAndKey(call.witness, 0) =
          << getRoot(replayEvents(events, Len(events) - 1)), hash(call.order) >>

----------------------------------------------------------------------------
(* C5 *)

C5_NoOrderRecordedTwice ==
    \A i, j \in 1 .. Len(events) : events[i] = events[j] => i = j

C5_ResubmissionRejected ==
    /\ (isDelegateCall(call') /\ call'.order \in recorded) => ~call'.ok
    /\ events' # events =>
          \A o \in recorded', w \in AllWitnesses :
              ~delegateAsserts(treeRoot', o, w, genuineSignature(o))

\* C5: no order is recorded twice: the event log never holds an order twice,
\* a delegate call for an order already recorded is rejected, and once an
\* order is recorded no witness at all makes delegate accept it again.
C5_AtMostOneRecordPerOrder ==
    [] C5_NoOrderRecordedTwice /\ [][C5_ResubmissionRejected]_vars

\* The recorded order is submitted again with the witness and a genuine
\* signature, as the first time, and is rejected.
C5_Witness ==
    /\ isDelegateCall(call) /\ ~call.ok
    /\ Len(events) >= 1
    /\ call.order = events[Len(events)]
    /\ assertSignatureMatches(call.order, call.signature)
    /\ computeRootAndKey(call.witness, 1) = << treeRoot, hash(call.order) >>

----------------------------------------------------------------------------
(* C6 *)

\* C6: treeRoot and the event log change only in a successful
\* DelegationZkApp.delegate step; every other invocation (the mirror's
\* delegate and check, DelegationZkApp.check, the three UserZkApp methods),
\* accepted or rejected, leaves both unchanged.
C6_OnlyDelegateChangesTheChain ==
    [][ (treeRoot' # treeRoot \/ events' # events) =>
            (isDelegateCall(call') /\ call'.ok) ]_vars

\* The mirror has just taken an order that the chain does not hold.
C6_Witness ==
    /\ call.op = "data.delegate"
    /\ call.result # undefined
    /\ Len(events) = 1
    /\ map[hash(call.order)] = 1
    /\ valueAt(hash(call.order)) = 0

----------------------------------------------------------------------------
(* C7 *)

C7_AcceptedCheckIsRecorded ==
    (isCheckCall(call) /\ call.ok) =>
        /\ valueAt(hash(call.order)) = 1
        /\ call.order \in recorded

C7_NoWitnessForUnrecorded ==
    \A o \in DelegationOrder \ recorded, w \in AllWitnesses :
        ~checkAsserts(treeRoot, o, w)

\* C7: an accepted check(order, witness) means that order.hash() holds 1
\* under the committed root and that a delegate for that very order (target
\* and signer) was recorded; for an order that was not recorded, a recorded
\* order with the same target and another signer notwithstanding, no witness
\* makes check accept.
C7_CheckOnlyAfterDelegate ==
    /\ C7_NoWitnessForUnrecorded
    /\ [] C7_AcceptedCheckIsRecorded
    /\ [][events' # events => C7_NoWitnessForUnrecorded']_vars

\* check is rejected for an order whose target was recorded with the other
\* signer, the witness being the recorded order's.
C7_Witness ==
    /\ isCheckCall(call) /\ ~call.ok
    /\ call.order \notin recorded
    /\ \E o \in recorded :
          /\ o.target = call.order.target
          /\ computeRootAndKey(call.witness, 1) = << treeRoot, hash(o) >>

----------------------------------------------------------------------------
(* C8 *)

\* The witness was built for the order's key against the root that the
\* record of the order replaced: with value 0 it gives that root and the key.
builtBeforeRecord(witness, order) ==
    \E i \in 1 .. Len(events) :
        /\ events[i] = order
        /\ computeRootAndKey(witness, 0) =
              << getRoot(replayEvents(events, i - 1)), hash(order) >>

\* C8, as claimed: after the record of an order has landed, check with a
\* witness built for the order's key before the record landed is rejected.
C8_PreRecordWitnessRejected ==
    (isCheckCall(call) /\ builtBeforeRecord(call.witness, call.order)) =>
        ~call.ok

\* C8, amended: after the record of an order has landed, check with the
\* witness built for the order's key before the record landed is accepted
\* as long as no other record has landed since, and is rejected once one has.
C8_PreRecordWitnessUntilNextRecord ==
    (isCheckCall(call) /\ builtBeforeRecord(call.witness, call.order)) =>
        (call.ok <=> events[Len(events)] = call.order)

\* check has accepted the witness that the mirror's delegate returned before
\* the record, which landed with that same witness.
C8_Witness ==
    /\ isCheckCall(call) /\ call.ok
    /\ builtBeforeRecord(call.witness, call.order)
    /\ call.witness = held
    /\ Len(events) = 2

----------------------------------------------------------------------------
(* C9 *)

C9_MirrorWitnessAccepted ==
    \A o \in DelegationOrder :
        (map = committedMap /\ valueAt(hash(o)) = 1) =>
            checkAsserts(treeRoot, o, dataCheck(map, o))

C9_MirrorWitnessCallAccepted ==
    (/\ isCheckCall(call)
     /\ map = committedMap
     /\ valueAt(hash(call.order)) = 1
     /\ call.witness = dataCheck(map, call.order)) => call.ok

\* C9: whenever order.hash() holds 1 under the committed root and the mirror
\* has the contents of the committed map, check(order, w) accepts the
\* witness w that the mirror's check(order) returns.
C9_CheckAcceptsMirrorWitness ==
    C9_MirrorWitnessAccepted /\ C9_MirrorWitnessCallAccepted

\* check has accepted the witness the synchronised mirror gives for the
\* first of two recorded orders.
C9_Witness ==
    /\ isCheckCall(call) /\ call.ok
    /\ map = committedMap
    /\ Len(events) = 2
    /\ call.order = events[1]
    /\ call.witness = dataCheck(map, call.order)
    /\ call.witness = held

----------------------------------------------------------------------------
(* C10 *)

\* C10, as claimed: the verdict of check on an (order, witness) pair is the
\* same whenever the call is made, here before and after a delegate call.
C10_VerdictNeverChanges ==
    [][ isDelegateCall(call') =>
          (checkAsserts(treeRoot', call'.order, call'.witness)
             = checkAsserts(treeRoot, call'.order, call'.witness)) ]_vars

C10_VerdictOfRoot ==
    isCheckCall(call) =>
        (call.ok <=>
            /\ valueAt(hash(call.order)) = 1
            /\ call.witness = getWitness(committedMap, hash(call.order)))

\* C10, amended: the verdict of check on an (order, witness) pair is a
\* function of the pair and of the committed treeRoot: the call is accepted
\* exactly when order.hash() holds 1 under treeRoot and the witness is the
\* path of that key in the committed map; check changes no state, so the
\* verdict for a pair changes only when a delegate changes treeRoot.
C10_VerdictDependsOnRootOnly ==
    /\ [] C10_VerdictOfRoot
    /\ [][isCheckCall(call') => UNCHANGED <<treeRoot, events, map, held, scriptVars>>]_vars
    /\ [][ treeRoot' = treeRoot =>
             \A o \in DelegationOrder :
                 \A w \in {held, held'} \ {undefined} :
                     checkAsserts(treeRoot', o, w)
                         = checkAsserts(treeRoot, o, w) ]_vars

\* check rejects, for a recorded order, the witness that was the order's
\* path until a later record changed the root.
C10_Witness ==
    /\ isCheckCall(call) /\ ~call.ok
    /\ builtBeforeRecord(call.witness, call.order)
    /\ events[Len(events)] # call.order

----------------------------------------------------------------------------
(* C11 *)

C11_KeyStaysSet ==
    \A k \in Keys :
        /\ valueAt(k) \in {0, 1}
        /\ valueAt(k)' \in {valueAt(k), 1}

C11_NoCallResetsAKey ==
    treeRoot' # treeRoot =>
        \A o \in DelegationOrder, w \in AllWitnesses :
            delegateAsserts(treeRoot', o, w, genuineSignature(o)) =>
                \A k \in Keys :
                    valueAt(k)' = 1 =>
                        leafUnder(delegateNewRoot(w), Depth, k) = 1

\* C11: the committed set only moves forward: in every step each key keeps
\* its value under treeRoot or goes from 0 to 1, so a key that holds 1 holds
\* 1 under every later treeRoot; and whatever order and witness delegate
\* accepts next, the root it would commit still holds 1 at every key that
\* holds 1.
C11_SetOnlyGrows ==
    [][C11_KeyStaysSet]_vars /\ [][C11_NoCallResetsAKey]_vars

\* A second record has just landed and the key of the first still holds 1.
C11_Witness ==
    /\ isDelegateCall(call) /\ call.ok
    /\ Len(events) = 2
    /\ valueAt(hash(events[1])) = 1
    /\ valueAt(hash(events[2])) = 1

----------------------------------------------------------------------------
(* C12 *)

C12_AfterInit ==
    /\ treeRoot = emptyMapRoot
    /\ \A k \in Keys : valueAt(k) = 0
    /\ \A o \in DelegationOrder :
          /\ delegateAsserts(treeRoot, o, dataDelegate(emptyMap, o)[2],
                             genuineSignature(o))
          /\ \A w \in AllWitnesses : ~checkAsserts(treeRoot, o, w)

C12_WhileNothingIsRecorded ==
    events = << >> =>
        /\ treeRoot = emptyMapRoot
        /\ isCheckCall(call) => ~call.ok

C12_FirstDelegate ==
    (/\ events = << >>
     /\ isDelegateCall(call')
     /\ call'.witness = dataDelegate(emptyMap, call'.order)[2]
     /\ call'.signature = genuineSignature(call'.order)) =>
        /\ call'.ok
        /\ events' = << call'.order >>

\* C12: after deployment and init, treeRoot is the root of an empty
\* MerkleMap and every key holds 0: delegate accepts every order with its
\* signer's signature and the witness that delegate() of an empty mirror
\* returns, and check accepts no order with any witness; this stays so, and
\* every check call is rejected, until the first delegate lands, and the
\* first such delegate call lands.
C12_StartsEmpty ==
    /\ C12_AfterInit
    /\ [] C12_WhileNothingIsRecorded
    /\ [][C12_FirstDelegate]_vars

\* The first delegate has landed, with the witness the empty mirror gave.
C12_Witness ==
    /\ isDelegateCall(call) /\ call.ok
    /\ events = << call.order >>
    /\ call.witness = held
    /\ call.witness = dataDelegate(emptyMap, call.order)[2]
    /\ call.signature = genuineSignature(call.order)

----------------------------------------------------------------------------
(* The consumer calls *)

isViaRecursiveProofCall(c) == c.op = "user.viaRecursiveProof"
isViaFriendContractCall(c) == c.op = "user.viaFriendContract"
isSignCall(c) == c.op = "program.sign"

\* The value key `key` holds under the treeRoot of the contract at `address`.
valueAtAddress(address, key) == leafUnder(treeRootAt(address), Depth, key)

----------------------------------------------------------------------------
(* C13 *)

\* C13: a viaRecursiveProof call whose proof's publicInput.target is not the
\* transaction sender is rejected, the proof verifying or not, and a
\* viaFriendContract call whose order's target is not the sender is
\* rejected, the order being recorded or not.
C13_SenderMustBeTarget ==
    /\ (isViaRecursiveProofCall(call)
          /\ call.proof.publicInput.target # call.sender) => ~call.ok
    /\ (isViaFriendContractCall(call)
          /\ call.order.target # call.sender) => ~call.ok

\* A proof that DelegateProgram.sign returned, for an order that is also
\* recorded, has been presented by a sender other than its target and
\* rejected.
C13_Witness ==
    /\ isViaRecursiveProofCall(call) /\ ~call.ok
    /\ call.proof = delegateProof
    /\ call.proof.genuine
    /\ call.proof.publicInput \in recorded
    /\ call.sender # call.proof.publicInput.target

----------------------------------------------------------------------------
(* C14 *)

C14_VerdictOfProofAndSender ==
    isViaRecursiveProofCall(call) =>
        (call.ok <=> /\ call.proof.genuine
                     /\ call.proof.publicInput.target = call.sender)

\* C14: viaRecursiveProof(proof) is accepted exactly when the proof verifies
\* and its publicInput.target is the transaction sender, whatever the
\* treeRoot of either DelegationZkApp holds, and the call changes nothing.
C14_ProofPathAcceptsIffVerifiedForSender ==
    /\ [] C14_VerdictOfProofAndSender
    /\ [][isViaRecursiveProofCall(call') =>
            UNCHANGED <<treeRoot, events, otherTreeRoot, delegateProof, scriptVars>>]_vars

\* A proof is accepted for an order that no DelegationZkApp holds, while
\* another order is recorded.
C14_Witness ==
    /\ isViaRecursiveProofCall(call) /\ call.ok
    /\ Len(events) = 1
    /\ \A a \in Addresses : valueAtAddress(a, hash(call.proof.publicInput)) = 0

----------------------------------------------------------------------------
(* C15 *)

\* C15, as claimed: viaFriendContract accepts an order only if the order's
\* key holds 1 under the treeRoot of the DelegationZkApp at
\* delegationAppAddress, whichever friendAddr the caller passes.
C15_FriendAcceptsOnlyAuthoritative ==
    (isViaFriendContractCall(call) /\ call.ok) =>
        valueAt(hash(call.order)) = 1

\* viaFriendContract has accepted, for its target, an order that the
\* DelegationZkApp at delegationAppAddress does not hold: the caller passed
\* the address of the other DelegationZkApp, where the order is recorded.
C15_Witness ==
    /\ isViaFriendContractCall(call) /\ call.ok
    /\ call.friendAddr = otherAppAddress
    /\ call.sender = call.order.target
    /\ valueAt(hash(call.order)) = 0
    /\ call.order \notin recorded

----------------------------------------------------------------------------
(* C16 *)

C16_AcceptedMeansSenderAndSignature ==
    /\ (isViaRecursiveProofCall(call) /\ call.ok) =>
          /\ call.sender = call.proof.publicInput.target
          /\ call.proof = delegateProof
    /\ (isViaFriendContractCall(call) /\ call.ok) =>
          /\ call.sender = call.order.target
          /\ valueAtAddress(call.friendAddr, hash(call.order)) = 1
          /\ call.friendAddr = delegationAppAddress => call.order \in recorded
          \* the proof the recorded signature gives is accepted as well
          /\ viaRecursiveProofAsserts(signProof(call.order), call.sender)

C16_EvidenceNeedsSignature ==
    \* a proof comes from a signature that verifies for its order
    /\ delegateProof' # delegateProof =>
          /\ isSignCall(call') /\ call'.ok
          /\ delegateProof'.publicInput = call'.order
          /\ assertSignatureMatches(call'.order, call'.signature)
    \* a key is set, at either contract, with a signature that verifies for
    \* the order of that key, from which sign returns a proof for the order
    /\ \A a \in Addresses :
          treeRootAt(a)' # treeRootAt(a) =>
              /\ \E k \in Keys :
                    \A j \in Keys :
                        valueAtAddress(a, j)' =
                            IF j = k THEN 1 ELSE valueAtAddress(a, j)
              /\ \A k \in Keys :
                    valueAtAddress(a, k)' # valueAtAddress(a, k) =>
                        hash(call'.order) = k
              /\ call'.op = (IF a = delegationAppAddress
                               THEN "zkapp.delegate" ELSE "other.delegate")
              /\ call'.ok
              /\ assertSignatureMatches(call'.order, call'.signature)
              /\ signAsserts(call'.order, call'.signature)

\* C16: either path accepts (order, sender) only if the sender is the
\* order's target and a signature that verifies for the order under its
\* signer was shown (to DelegateProgram.sign, whose proof is presented, or
\* to the delegate call that set the order's key); and for every (order,
\* sender) that viaFriendContract accepts, DelegateProgram.sign returns a
\* proof from the recorded signature and viaRecursiveProof accepts that
\* proof from the same sender.
C16_PathsGiveTheSameGuarantee ==
    [] C16_AcceptedMeansSenderAndSignature /\ [][C16_EvidenceNeedsSignature]_vars

\* viaFriendContract has accepted a recorded order for which the caller
\* also holds the proof DelegateProgram.sign returned.
C16_Witness ==
    /\ isViaFriendContractCall(call) /\ call.ok
    /\ call.friendAddr = delegationAppAddress
    /\ call.order \in recorded
    /\ delegateProof = signProof(call.order)

----------------------------------------------------------------------------
(* C17 *)

C17_SignReturnsProofOfOrder ==
    (isSignCall(call')
       /\ call'.signature = genuineSignature(call'.order)) =>
        /\ call'.ok
        /\ call'.proof # noProof
        /\ call'.proof.publicInput = call'.order
        /\ call'.proof.genuine
        /\ delegateProof' = call'.proof

C17_VerifyAcceptsReturnedProof ==
    (call.op = "program.verify" /\ call.proof = delegateProof) =>
        /\ call.result = TRUE
        /\ call.proof.genuine

\* C17: for every order and the signature its signer gives over
\* bytesToSign() inside the Ethereum envelope, DelegateProgram.sign returns
\* a proof whose public input is the order, and DelegateProgram.verify
\* returns true for the proof sign returned.
C17_GenuineSignatureGivesVerifyingProof ==
    [][C17_SignReturnsProofOfOrder]_vars /\ [] C17_VerifyAcceptsReturnedProof

\* DelegateProgram.verify has returned true for the proof that sign
\* returned for an order other than order1.
C17_Witness ==
    /\ call.op = "program.verify"
    /\ call.result = TRUE
    /\ call.proof = delegateProof
    /\ call.proof.publicInput # order1

----------------------------------------------------------------------------
(* C18 *)

C18_FailedSignYieldsNothing ==
    (isSignCall(call')
       /\ ~verifyV2(call'.signature, fullMessages[call'.order.target],
                    call'.order.signer)) =>
        /\ ~call'.ok
        /\ call'.proof = noProof
        /\ delegateProof' = delegateProof

C18_ProofComesFromPassedCheck ==
    delegateProof' # delegateProof =>
        /\ isSignCall(call') /\ call'.ok
        /\ verifyV2(call'.signature, fullMessages[call'.order.target],
                    call'.order.signer)
        /\ delegateProof' = [publicInput |-> call'.order, genuine |-> TRUE]

C18_VerifyingProofWasReturnedBySign ==
    /\ delegateProof # noProof => delegateProof.genuine
    /\ (call.op \in {"program.verify", "user.viaRecursiveProof"}
          /\ call.proof.genuine) => call.proof = delegateProof

\* C18: a DelegateProgram.sign call whose signature does not verify for the
\* order fails and yields no proof; the caller's proof changes only to the
\* proof of an order whose signature check has just passed; and every
\* proof that verifies is one that sign returned.
C18_NoProofWithoutSignature ==
    /\ [][C18_FailedSignYieldsNothing]_vars
    /\ [][C18_ProofComesFromPassedCheck]_vars
    /\ [] C18_VerifyingProofWasReturnedBySign

\* sign has failed on the corrupted signature of the order and no proof
\* exists.
C18_Witness ==
    /\ isSignCall(call) /\ ~call.ok
    /\ call.signature = corrupted(genuineSignature(call.order))
    /\ call.proof = noProof
    /\ delegateProof = noProof

----------------------------------------------------------------------------
(* C19 *)

\* The Ethereum prefix, the decimal length of bytesToSign(), bytesToSign().
envelopeOfBytesToSign(order) ==
    ethereumPrefix \o decimalString(Len(bytesToSign(order)))
                   \o bytesToSign(order)

\* The signature verifies under order.signer over that message.
verifiesOverEnvelope(order, signature) ==
    /\ fullMessages[order.target] = ethereumPrefix
          \o decimalString(Len(encodedKeys[order.target]) + Len(delegationPrefix))
          \o delegationPrefix \o encodedKeys[order.target]
    /\ verifyV2(signature, fullMessages[order.target], order.signer)

\* With nothing recorded yet, so that the signature alone decides delegate.
C19_SamePairs(o) ==
    /\ fullMessage(o) = envelopeOfBytesToSign(o)
    /\ fullMessages[o.target] = envelopeOfBytesToSign(o)
    /\ \A sig \in PresentedSignatures :
          /\ signAsserts(o, sig)
                = verifyV2(sig, envelopeOfBytesToSign(o), o.signer)
          /\ delegateAsserts(treeRoot, o,
                             getWitness(committedMap, hash(o)), sig)
                = verifyV2(sig, envelopeOfBytesToSign(o), o.signer)

C19_SignVerdict ==
    isSignCall(call) =>
        call.ok = verifiesOverEnvelope(call.order, call.signature)

C19_DelegateVerdict ==
    \A a \in Addresses :
        (/\ call'.op = (IF a = delegationAppAddress
                          THEN "zkapp.delegate" ELSE "other.delegate")
         /\ computeRootAndKey(call'.witness, 0)
               = << treeRootAt(a), hash(call'.order) >>) =>
            call'.ok = verifiesOverEnvelope(call'.order, call'.signature)

\* C19: DelegateProgram.sign and the signature check inside
\* DelegationZkApp.delegate accept the same (order, signature) pairs: a
\* sign call succeeds, and a delegate call whose witness assertions hold
\* succeeds, exactly when the signature verifies under order.signer over
\* the Ethereum prefix, then the decimal length of bytesToSign(), then
\* bytesToSign().
C19_SameSignatureCheck ==
    /\ \A o \in DelegationOrder : C19_SamePairs(o)
    /\ [] C19_SignVerdict
    /\ [][C19_DelegateVerdict]_vars

\* delegate has rejected, for the signature alone, the signature that
\* order1's signer gave over bytesToSign() outside the envelope, while the
\* caller holds the proof sign returned for order1.
C19_Witness ==
    /\ isDelegateCall(call) /\ ~call.ok
    /\ call.order = order1
    /\ call.signature = Ecdsa(S1, bytesToSign(order1))
    /\ computeRootAndKey(call.witness, 0) = << treeRoot, hash(order1) >>
    /\ delegateProof = signProof(order1)

----------------------------------------------------------------------------
(* C20 *)

C20_HeldProofAccepted ==
    (/\ isViaRecursiveProofCall(call)
     /\ call.proof = delegateProof
     /\ call.sender = call.proof.publicInput.target) => call.ok

C20_ProofIsKept ==
    (delegateProof # noProof /\ ~isSignCall(call')) =>
        delegateProof' = delegateProof

\* C20: the proof DelegateProgram.sign returned is accepted by
\* viaRecursiveProof from its target in every reachable state, whatever
\* delegate and check calls were made at either contract; and no call but
\* another sign changes the proof the caller holds, viaRecursiveProof
\* included, so the accepted call can be made again.
C20_ProofCanBeReused ==
    [] C20_HeldProofAccepted /\ [][C20_ProofIsKept]_vars

\* The proof is accepted after two records have landed, neither of them
\* of the proof's order.
C20_Witness ==
    /\ isViaRecursiveProofCall(call) /\ call.ok
    /\ call.proof = delegateProof
    /\ Len(events) = 2
    /\ call.proof.publicInput \notin recorded

----------------------------------------------------------------------------
(* The mirror calls *)

isDataDelegateCall(c) == c.op = "data.delegate"
isDataCheckCall(c) == c.op = "data.check"

----------------------------------------------------------------------------
(* C21 *)

\* C21: when the mirror holds 0 at order.hash(), the mirror's delegate(order)
\* sets that key to 1 and no other, and returns a witness that with value 0
\* gives the mirror's root from before the call and the key order.hash(),
\* and with value 1 gives the mirror's root after the call.
C21_MirrorDelegateSetsKeyAndReturnsPath ==
    [][ (isDataDelegateCall(call') /\ map[hash(call'.order)] = 0) =>
          /\ map' = [k \in Keys |->
                       IF k = hash(call'.order) THEN 1 ELSE map[k]]
          /\ call'.result # undefined
          /\ held' = call'.result
          /\ computeRootAndKey(call'.result, 0)
                = << getRoot(map), hash(call'.order) >>
          /\ computeRootAndKey(call'.result, 1)
                = << getRoot(map'), hash(call'.order) >> ]_vars

\* The mirror's delegate has returned a witness for a third order.
C21_Witness ==
    /\ isDataDelegateCall(call)
    /\ call.result # undefined
    /\ call.result = held
    /\ Cardinality({k \in Keys : map[k] = 1}) = 3

----------------------------------------------------------------------------
(* C22 *)

\* C22: when the mirror already holds 1 at order.hash(), the mirror's
\* delegate(order) returns undefined, which is a return value and no error,
\* and leaves the mirror and the held witness as they were, whether the
\* contract has recorded the order or not.
C22_MirrorDelegateIsGuarded ==
    [][ (isDataDelegateCall(call') /\ map[hash(call'.order)] = 1) =>
          /\ call'.result = undefined
          /\ map' = map
          /\ held' = held ]_vars

\* The mirror's delegate has returned undefined for an order the contract
\* has not recorded.
C22_Witness ==
    /\ isDataDelegateCall(call)
    /\ call.result = undefined
    /\ map[hash(call.order)] = 1
    /\ valueAt(hash(call.order)) = 0
    /\ call.order \notin recorded

----------------------------------------------------------------------------
(* C23 *)

C23_MirrorCheckResult ==
    isDataCheckCall(call) =>
        /\ call.result = undefined <=> map[hash(call.order)] = 0
        /\ call.result # undefined =>
              /\ computeRootAndKey(call.result, 1)
                    = << getRoot(map), hash(call.order) >>
              /\ held = call.result

\* C23: the mirror's check(order) returns undefined exactly when the mirror
\* holds 0 at order.hash(), and otherwise a witness that with value 1 gives
\* the mirror's current root and the key order.hash(); the call leaves the
\* mirror unchanged.
C23_MirrorCheckReturnsPathIffSet ==
    /\ [] C23_MirrorCheckResult
    /\ [][isDataCheckCall(call') => map' = map]_vars

\* The mirror's check has returned the witness of the first of three
\* orders the mirror holds.
C23_Witness ==
    /\ isDataCheckCall(call)
    /\ call.result # undefined
    /\ Len(events) = 1
    /\ call.order = events[1]
    /\ Cardinality({k \in Keys : map[k] = 1}) = 3

----------------------------------------------------------------------------
(* C24 *)

C24_MirrorKeyStaysSet ==
    \A k \in Keys :
        /\ map[k] \in {0, 1}
        /\ map'[k] \in {map[k], 1}

\* C24: every key of the mirror starts at 0, and in every step each key
\* keeps its value or goes from 0 to 1: once get(key) is 1, no delegate or
\* check call on the mirror brings it back to 0.
C24_MirrorOnlyGrows ==
    /\ \A k \in Keys : map[k] = 0
    /\ [][C24_MirrorKeyStaysSet]_vars

\* The mirror's delegate has set a second key and the first still holds 1.
C24_Witness ==
    /\ isDataDelegateCall(call)
    /\ call.result # undefined
    /\ Cardinality({k \in Keys : map[k] = 1}) = 2

----------------------------------------------------------------------------
(* C25 *)

isBytesToSignCall(c) == c.op = "order.bytesToSign"

\* C25: bytesToSign() does not depend on the signer: the bytes returned for
\* an order are the bytes returned for every order with the same target.
C25_MessageIgnoresSigner ==
    isBytesToSignCall(call) =>
        \A s \in Signers :
            bytesToSign([target |-> call.order.target, signer |-> s])
                = call.result

\* bytesToSign() has returned for an order of the second signer.
C25_Witness ==
    /\ isBytesToSignCall(call)
    /\ call.order.signer = S2
    /\ call.order.target = [x |-> 65535, isOdd |-> TRUE]
    /\ call.result = bytesToSign([target |-> call.order.target, signer |-> S1])

----------------------------------------------------------------------------
(* C26 *)

\* C26: bytesToSign() always returns the 13 bytes of 'MinaDelegate|', then
\* one parity byte, then 32 bytes for the x coordinate, 46 bytes in all,
\* and targets that differ in x or in isOdd never get the same bytes.
C26_EncodingIsUnambiguous ==
    isBytesToSignCall(call) =>
        /\ Len(call.result) = 46
        /\ Len(delegationPrefix) = 13
        /\ SubSeq(call.result, 1, 13) = delegationPrefix
        /\ call.result[14] = (IF call.order.target.isOdd THEN 1 ELSE 0)
        /\ \A i \in 15 .. 46 : call.result[i] \in 0 .. 255
        /\ \A t \in PublicKeys :
              t # call.order.target =>
                  bytesToSign([target |-> t, signer |-> call.order.signer])
                      # call.result

\* bytesToSign() has returned for the largest sample x with odd parity:
\* the first four x bytes hold its 31 bits, first bit highest.
C26_Witness ==
    /\ isBytesToSignCall(call)
    /\ call.order.target = [x |-> 2147483647, isOdd |-> TRUE]
    /\ SubSeq(call.result, 14, 18) = << 1, 255, 255, 255, 254 >>

----------------------------------------------------------------------------
(* C27 *)

\* Poseidon.hashWithPrefix over the order's fields: target.x, target.isOdd,
\* signer.x, signer.y.
hashOfFields(order) ==
    poseidonTable[<< order.target.x, (IF order.target.isOdd THEN 1 ELSE 0),
                     order.signer.x, order.signer.y >>]

C27_HashOfOrder ==
    /\ call.op = "order.hash" =>
          /\ call.result = hashOfFields(call.order)
          /\ \A o \in DelegationOrder :
                o = call.order => hash(o) = call.result
    /\ (isDataCheckCall(call) /\ call.result # undefined) =>
          computeRootAndKey(call.result, 1)[2] = hashOfFields(call.order)

C27_HashIsTheKey ==
    /\ (isDataDelegateCall(call') /\ call'.result # undefined) =>
          \A k \in Keys :
              map'[k] # map[k] <=> k = hashOfFields(call'.order)
    /\ (isDelegateCall(call') /\ call'.ok) =>
          \A k \in Keys :
              valueAt(k)' # valueAt(k) <=> k = hashOfFields(call'.order)

\* C27: hash() of an order is the Poseidon hash of its target and signer
\* fields and of nothing else: in every state, whatever the mirror and the
\* contract hold, it returns the same key for the same order; and that key
\* is the one the mirror's delegate sets, the one the mirror's check
\* returns the path of, and the one the contract's delegate sets.
C27_HashIsDeterministicKey ==
    [] C27_HashOfOrder /\ [][C27_HashIsTheKey]_vars

\* hash() has returned, with two orders recorded, the key under which the
\* contract and the mirror hold the first of them.
C27_Witness ==
    /\ call.op = "order.hash"
    /\ Len(events) = 2
    /\ call.order = events[1]
    /\ valueAt(call.result) = 1
    /\ map[call.result] = 1

----------------------------------------------------------------------------
(* C29 *)

\* Whatever has been recorded, delegate would accept every order whose key
\* holds 0, with a genuine signature and the witness of the committed map.
C29_DelegateStaysEnabled ==
    \A o \in DelegationOrder :
        valueAt(hash(o)) = 0 =>
            delegateAsserts(treeRoot, o, getWitness(committedMap, hash(o)),
                            genuineSignature(o))

C29_SuchACallIsAccepted ==
    ( /\ isDelegateCall(call')
      /\ valueAt(hash(call'.order)) = 0
      /\ call'.witness = getWitness(committedMap, hash(call'.order))
      /\ assertSignatureMatches(call'.order, call'.signature) )
    => ( /\ call'.ok
         /\ events' = Append(events, call'.order)
         /\ leafUnder(treeRoot', Depth, hash(call'.order)) = 1 )

\* C29: there is no terminal state: in every reachable state, for every
\* order whose key holds 0, delegate accepts a call with a genuine signature
\* and the witness built from the current map, and every such call made is
\* accepted and recorded.
C29_NoTerminalState ==
    [] C29_DelegateStaysEnabled /\ [][C29_SuchACallIsAccepted]_vars

\* A fourth order has been accepted after three others, with the witness
\* built from the map of those three.
C29_Witness ==
    /\ isDelegateCall(call) /\ call.ok
    /\ Len(events) = 4
    /\ call.witness = getWitness(replayEvents(events, 3), hash(call.order))
    /\ call.signature = genuineSignature(call.order)

----------------------------------------------------------------------------
(* C30 *)

\* C30: a rejected delegate tells its caller why: among calls with a genuine
\* signature, one rejected because the order's key is already set fails
\* differently from one rejected because its witness is stale or mismatched
\* while the key still holds 0, so no two rejected calls that fail alike
\* differ in whether the key was already set.
C30_FailureNamesItsReason ==
    ( /\ isDelegateCall(call) /\ ~call.ok
      /\ assertSignatureMatches(call.order, call.signature) )
    => \A o \in DelegationOrder, w \in AllWitnesses :
          ( /\ ~delegateAsserts(treeRoot, o, w, genuineSignature(o))
            /\ delegateFailure(treeRoot, o, w, genuineSignature(o))
                  = call.failure )
          => (valueAt(hash(o)) = 1 <=> valueAt(hash(call.order)) = 1)

\* A delegate for a recorded order, with a genuine signature and the witness
\* of the committed map for its key, has failed at the root assertion, where
\* a stale witness for an unrecorded order fails too.
C30_Witness ==
    /\ isDelegateCall(call) /\ ~call.ok
    /\ call.signature = genuineSignature(call.order)
    /\ call.order \in recorded
    /\ call.witness = getWitness(committedMap, hash(call.order))
    /\ call.failure = "treeRoot.assertEquals(root)"
    /\ \E o \in DelegationOrder \ recorded :
          delegateFailure(treeRoot, o, getWitness(emptyMap, hash(o)),
                          genuineSignature(o)) = call.failure

----------------------------------------------------------------------------
(* C32 *)

isVerifyProgramCheckCall(c) == c.op = "verifyProgram.check"

\* C32: DelegateVerifyProgram.check succeeds exactly on a proof that
\* verifies, which is then the proof DelegateProgram.sign returned; its
\* public output is that proof's public input, and a failed check has no
\* output.
C32_CheckOnlyOnVerifyingProof ==
    isVerifyProgramCheckCall(call) =>
        /\ call.ok <=> call.proof.genuine
        /\ call.ok =>
              /\ call.proof = delegateProof
              /\ call.publicOutput = call.proof.publicInput
              /\ call.publicOutput \in DelegationOrder
        /\ ~call.ok => call.publicOutput = undefined

\* check has succeeded on a proof for an order other than the script's, and
\* returned that order.
C32_Witness ==
    /\ isVerifyProgramCheckCall(call) /\ call.ok
    /\ call.proof.publicInput = [target |-> T2, signer |-> S2]
    /\ call.publicOutput = [target |-> T2, signer |-> S2]

----------------------------------------------------------------------------
(* C33 *)

\* The empty map with the key of every logged order set to 1.
C33_MapOfTheLog ==
    [k \in Keys |->
        IF \E i \in 1 .. Len(events) : hashOfFields(events[i]) = k
        THEN 1 ELSE 0]

\* C33: the committed treeRoot is the root of the empty map with the key
\* order.hash() of every logged order set to 1, no order is logged twice,
\* and a mirror fed the logged orders in their order ends with that map.
C33_LogReconstructsTheMap ==
    /\ treeRoot = getRoot(C33_MapOfTheLog)
    /\ \A i, j \in 1 .. Len(events) : events[i] = events[j] => i = j
    /\ archiveMap = C33_MapOfTheLog
    /\ committedMap = C33_MapOfTheLog

\* Three orders are logged and the committed root is the root of the map
\* with exactly their three keys set.
C33_Witness ==
    /\ Len(events) = 3
    /\ Cardinality({k \in Keys : C33_MapOfTheLog[k] = 1}) = 3
    /\ treeRoot = getRoot(C33_MapOfTheLog)
    /\ treeRoot # emptyMapRoot

----------------------------------------------------------------------------
(* C34 *)

\* The mirror differs from the committed map at the key of `order` and
\* nowhere else.
C34_MirrorAheadBy(order) ==
    \A k \in Keys : map[k] # valueAt(k) <=> k = hashOfFields(order)

\* The mirror, equal to the committed map, gives a witness for an order:
\* from then on it is ahead by that order's key.
C34_MirrorCallPutsItAhead ==
    ( /\ isDataDelegateCall(call') /\ call'.result # undefined
      /\ map = committedMap )
    => ( /\ treeRoot' = treeRoot
         /\ \A k \in Keys :
               map'[k] # valueAt(k) <=> k = hashOfFields(call'.order)
         /\ getRoot(map') # treeRoot' )

\* The on-chain delegate for that order succeeds with the mirror's witness
\* while the mirror is ahead by that key: the two agree again.
C34_RecordCatchesUp ==
    ( /\ isDelegateCall(call') /\ call'.ok
      /\ C34_MirrorAheadBy(call'.order)
      /\ call'.witness = getWitness(map, hashOfFields(call'.order)) )
    => ( /\ getRoot(map') = treeRoot'
         /\ map' = committedMap' )

\* C34: when the mirror holds what the committed map holds and its
\* delegate(order) returns a witness, the mirror differs from the committed
\* map exactly at order.hash() until the on-chain delegate for that order
\* succeeds with nothing else recorded in between, and then the mirror's
\* root is treeRoot again.
C34_MirrorAndChainResynchronise ==
    [][C34_MirrorCallPutsItAhead /\ C34_RecordCatchesUp]_vars

\* The second order has been recorded with the witness the mirror returned
\* for it, and the mirror, which holds both keys, has the committed root.
C34_Witness ==
    /\ isDelegateCall(call) /\ call.ok
    /\ Len(events) = 2
    /\ call.witness = held
    /\ held = getWitness(map, hash(call.order))
    /\ map[hash(events[1])] = 1 /\ map[hash(events[2])] = 1
    /\ getRoot(map) = treeRoot

----------------------------------------------------------------------------
(* C36 *)

\* Bit n of x, counted from the lowest, for the positions toBits() gives;
\* 0 beyond them. The sample x are below 2 ^ 31.
C36_BitOf(x, n) ==
    IF n >= FieldBits \/ n > 30 THEN 0 ELSE (x \div (2 ^ n)) % 2

\* The byte of 8 consecutive bits from position i, the first the highest.
C36_ByteOf(x, i) ==
    128 * C36_BitOf(x, i) + 64 * C36_BitOf(x, i + 1)
      + 32 * C36_BitOf(x, i + 2) + 16 * C36_BitOf(x, i + 3)
      + 8 * C36_BitOf(x, i + 4) + 4 * C36_BitOf(x, i + 5)
      + 2 * C36_BitOf(x, i + 6) + C36_BitOf(x, i + 7)

\* C36: encodeKey returns 33 bytes: the parity byte, 0 or 1, then 32 bytes,
\* each made of 8 consecutive bits of x with the first bit of the group the
\* highest; the positions past the 254 bits of x count as 0, and no step of
\* the doubling and adding gives more than 255.
C36_EncodeKeyBytes ==
    call.op = "encodeKey" =>
        /\ Len(call.result) = 33
        /\ call.result[1] = (IF call.k.isOdd THEN 1 ELSE 0)
        /\ \A g \in 1 .. 32 :
              call.result[g + 1] = C36_ByteOf(call.k.x, 8 * (g - 1))
        /\ Len(toBits(call.k.x)) = 254
        /\ \A g \in 1 .. 32, j \in 0 .. 8 :
              encodeByte(toBits(call.k.x), 8 * (g - 1), j) \in 0 .. 255

\* encodeKey has returned for x = 2 ^ 8 + 1 with even parity: the first bit
\* of each of the first two groups is set, so both bytes are 128.
C36_Witness ==
    /\ call.op = "encodeKey"
    /\ call.k = [x |-> 257, isOdd |-> FALSE]
    /\ SubSeq(call.result, 1, 4) = << 0, 128, 128, 0 >>
    /\ call.result[33] = 0

----------------------------------------------------------------------------
(* C35 *)

isFromHexCall(c) == c.op = "Secp256k1.fromHex"

\* The value of the 64 characters from 0-based position `from`, read as
\* hexadecimal digits.
C35_DigitsAt(publicKey, from) ==
    stripZeros([i \in 1 .. 64 |->
        IF publicKey[from + i] \in DOMAIN hexDigits
        THEN hexDigits[publicKey[from + i]] ELSE 0])

\* C35: fromHex throws 'Bad public key format' for every input that does
\* not start with '0x04' or is not 4 + 64 + 64 characters long, and for
\* every other input returns the point with x the 64 digits after the
\* prefix and y the 64 digits after those.
C35_FromHexThrowsOrReturnsThePoint ==
    isFromHexCall(call) =>
        IF \/ Len(call.publicKey) < 4
           \/ SubSeq(call.publicKey, 1, 4) # << "0", "x", "0", "4" >>
           \/ Len(call.publicKey) # 132
        THEN call.result.threw = "Bad public key format"
        ELSE /\ call.result.threw = "nothing"
             /\ call.result.x = C35_DigitsAt(call.publicKey, 4)
             /\ call.result.y = C35_DigitsAt(call.publicKey, 68)

\* fromHex has been given '0x04', 64 digits and 64 characters the last of
\* which is no hexadecimal digit, and has thrown something else than 'Bad
\* public key format'.
C35_Witness ==
    /\ isFromHexCall(call)
    /\ Len(call.publicKey) = 132
    /\ SubSeq(call.publicKey, 1, 4) = << "0", "x", "0", "4" >>
    /\ call.publicKey[132] = "g"
    /\ call.result.threw = "SyntaxError"

----------------------------------------------------------------------------
(* C37 *)

\* The steps of a run of the script in which no call rejects.
C37_ExpectedSteps ==
    << "compile", "acquireKeyPair", "waitForFunding", "signMessage",
       "NoOpProgram.doNothing",
       "DelegateProgram.sign", "DelegateProgram.verify", "deploy contracts",
       "UserZkApp.noOp", "UserZkApp.viaRecursiveProof",
       "data.delegate", "DelegationZkApp.delegate", "fetchAccount",
       "data.check", "DelegationZkApp.check",
       "data.check", "UserZkApp.viaFriendContract",
       "summarize", "releaseKeyPair" >>

C37_IsPrefix(s, t) ==
    /\ Len(s) <= Len(t)
    /\ \A i \in DOMAIN s : s[i] = t[i]

\* No call rejected among the first n steps.
C37_NoneRejected(n) == \A i \in 1 .. n : steps[i] # "throw"

\* C37: as long as no call of the script rejects, its steps are, in this
\* order, the mirror's delegate(order), the on-chain delegate transaction,
\* the account refetch, the mirror's check(order) and the on-chain check,
\* the mirror's check(order) and the viaFriendContract transaction; the
\* on-chain delegate records the order with the witness the mirror's
\* delegate returned, check and viaFriendContract are accepted with the
\* witness of the mirror's check(order); no run raises a 'witness absent'
\* error or fails an assertion; and the proof viaRecursiveProof verifies is
\* the one DelegateProgram.sign returned for the order.
C37_BenchmarkStepsInOrder ==
    /\ \A n \in 0 .. Len(steps) :
          C37_NoneRejected(n) =>
              C37_IsPrefix(SubSeq(steps, 1, n), C37_ExpectedSteps)
    /\ \A i \in DOMAIN steps :
          steps[i] \notin {"witness absent", "assertion failed"}
    /\ call.op = "user.viaRecursiveProof" =>
          /\ call.ok
          /\ call.proof = signProof(delegationOrder)
          /\ \E i \in DOMAIN steps : steps[i] = "DelegateProgram.sign"
    /\ call.op = "zkapp.delegate" =>
          /\ call.ok
          /\ call.witness = getWitness(emptyMap, hash(delegationOrder))
          /\ events = <<delegationOrder>>
          /\ treeRoot = getRoot(map)
    /\ call.op \in {"zkapp.check", "user.viaFriendContract"} =>
          /\ call.ok
          /\ call.witness # undefined
          /\ call.witness = dataCheck(map, delegationOrder)
          /\ treeRoot = getRoot(map)

\* A run of the script in which nothing rejected has ended.
C37_Witness ==
    /\ pc = "ended"
    /\ steps = C37_ExpectedSteps
    /\ events = <<delegationOrder>>

----------------------------------------------------------------------------
(* C38 *)

C38_Acquired == lightnetAccount # noAccount

\* C38: releaseKeyPair is called at most once and only after
\* acquireKeyPair succeeded; when the script has ended it was called exactly
\* once, for the public key of the acquired account, if acquireKeyPair
\* succeeded, whether the try block completed or one of its steps threw,
\* and not at all if the acquisition failed.
C38_ReleasedOnceIffAcquired ==
    /\ releases \in {0, 1}
    /\ releases = 1 => C38_Acquired /\ pc = "ended"
    /\ pc = "ended" => releases = (IF C38_Acquired THEN 1 ELSE 0)
    /\ pc = "ended" /\ C38_Acquired =>
          /\ call.op = "run.finally"
          /\ call.released
          /\ call.publicKey = lightnetAccount.publicKey
    /\ pc = "ended" /\ ~C38_Acquired /\ call.op = "run.finally" =>
          ~call.released

\* A step after the on-chain delegate threw and the account was released.
C38_Witness ==
    /\ pc = "ended"
    /\ releases = 1
    /\ \E i \in DOMAIN steps :
          /\ steps[i] = "throw"
          /\ \E j \in 1 .. i - 1 : steps[j] = "DelegationZkApp.delegate"

============================================================================
